---- MODULE Spec2Model ----
(***************************************************************************)
(* Model of the main controller (src/src/mainController.js): the closure   *)
(* state `port` / `parser`, the listeners the controller attaches to the   *)
(* port, the parser and its own public event emitter, the promises its     *)
(* calls return and the timers it schedules.                               *)
(*                                                                         *)
(* Objects are numbered in creation order: port q and parser q are the     *)
(* pair created by the q-th call of init(); 0 stands for `undefined`.      *)
(* A promise ("handle") is an index into `handles`.                        *)
(***************************************************************************)
EXTENDS Integers, Sequences, FiniteSets, TLC

VARIABLES
  port,       \* `let port`   (line 16): 0, or the number of the current port
  parser,     \* `let parser` (line 17): 0, or the number of the current parser
  ports,      \* ports[q]: the listeners attached to port q, per event name
  parsers,    \* parsers[p]: the listeners attached to parser p, per event name
  handles,    \* the promises created so far, in creation order
  timers,     \* the pending setTimeout callbacks, in creation order
  flushes,    \* the ports whose flush callback is outstanding, in call order
  nWrites,    \* number of port.write calls made
  lastWrite,  \* what the last port.write received: <<port number, bytes>>
  nPublished, \* number of eventEmitter.emit calls made
  lastPublished, \* what the last one published: <<event name, data>>
  ret,        \* how the last call of the public API returned
  nEvents,    \* number of events the ports and parsers have emitted
  plans,      \* the goToXY calls made: their promise and where they stand
  input,      \* the argument a function of the code is applied to
  output      \* what the function returned for `input`; <<>> before

vars == <<port, parser, ports, parsers, handles, timers, flushes, nWrites,
          lastWrite, nPublished, lastPublished, ret, nEvents, plans, input,
          output>>

\* The state of one controller
controller == <<port, parser, ports, parsers, handles, timers, flushes,
                nWrites, lastWrite, nPublished, lastPublished, ret, nEvents,
                plans>>

----------------------------------------------------------------------------
(* Bounds of the model *)

MaxInits == 2      \* calls of init()
MaxWrites == 2     \* successful port.write calls
MaxHandles == 3    \* promises created
MaxEvents == 2     \* events emitted by ports and parsers

(* Program constants *)

requestStartFlag == 163     \* 0xA3
settlingDelay == 1000

(* Inputs the calls are tried with *)

Speeds == {20}
Distances == {0, 100}
Angles == {0, 90}
Headings == {90}
Radii == {50}
HardFlags == {0, 1}
OdometryData == {1}           \* a decoded odometry object
Errors == {1}               \* an error object of the port

----------------------------------------------------------------------------
(* Listeners and promises *)

Listener(fn, h) == [fn |-> fn, h |-> h]

\* A promise: what settles it ("ready", "targetReached" or "timer"), its
\* status, the parser its listener was attached to (0: none) and how often
\* that listener has run.
Handle(by, p) == [by |-> by, status |-> "pending", parser |-> p, fired |-> 0]

\* Promise semantics: resolve/reject settle a pending promise and are
\* ignored on a settled one.
Settle(hs, h, s) ==
  IF hs[h].status = "pending" THEN [hs EXCEPT ![h].status = s] ELSE hs

Remove(ls, l) == SelectSeq(ls, LAMBDA x : x # l)

----------------------------------------------------------------------------
(* Encoding of a frame *)

\* robotlib.utils.math.numberToHex followed by Buffer.from: the number is
\* written as two hex digits and read back by Buffer.from, so the byte that
\* reaches the buffer for a number in 0..255 is that number.  The calls of
\* Next stay in that range; outside it the low two hex digits are kept and
\* a negative number, whose text is no hex literal, gives 0.
numberToHex(n) == IF n < 0 THEN 0 ELSE n % 256

\* Index of the first zero of s, or 0 when s has none.
RECURSIVE firstZero(_, _)
firstZero(s, i) ==
  IF i > Len(s) THEN 0 ELSE IF s[i] = 0 THEN i ELSE firstZero(s, i + 1)

\* cobs.encode(buffer): every block is a code byte (the distance to the next
\* zero, 255 for 254 bytes without one) followed by the block's nonzero bytes.
RECURSIVE cobsBlocks(_)
cobsBlocks(s) ==
  LET z == firstZero(s, 1)
  IN  IF (z = 0 /\ Len(s) >= 254) \/ z > 254
        THEN <<255>> \o SubSeq(s, 1, 254) \o cobsBlocks(SubSeq(s, 255, Len(s)))
      ELSE IF z = 0
        THEN <<Len(s) + 1>> \o s
      ELSE <<z>> \o SubSeq(s, 1, z - 1) \o cobsBlocks(SubSeq(s, z + 1, Len(s)))

\* Mutant: a zero of the data is written as a one.
cobsEncodeZeroAsOne(data) ==
  [i \in 1..Len(data) |-> IF data[i] = 0 THEN 1 ELSE data[i]] \o <<0>>

\* cobs.encode(buffer, true): the blocks followed by the zero delimiter.
cobsEncode(data) == cobsBlocks(data) \o <<0>>

\* The inverse transform of the frame codec, applied to one frame with its
\* closing delimiter: every block is a count followed by count - 1 bytes, and
\* a zero stood between two blocks unless the first was a full one.
\* Malformed when the delimiter is missing or occurs before the end, or when
\* a block is shorter than its count.
Malformed == <<-1>>

RECURSIVE cobsUnblocks(_)
cobsUnblocks(s) ==
  IF s = <<>> THEN <<>>
  ELSE LET code == s[1]
           rest == SubSeq(s, code + 1, Len(s))
       IN  IF code = 0 \/ code - 1 > Len(s) - 1 THEN Malformed
           ELSE IF rest = <<>> THEN SubSeq(s, 2, code)
           ELSE LET tail == cobsUnblocks(rest)
                IN  IF tail = Malformed THEN Malformed
                    ELSE SubSeq(s, 2, code)
                           \o (IF code < 255 THEN <<0>> ELSE <<>>) \o tail

cobsDecode(frame) ==
  IF frame = <<>> \/ frame[Len(frame)] # 0
       \/ firstZero(frame, 1) # Len(frame)
    THEN Malformed
    ELSE cobsUnblocks(SubSeq(frame, 1, Len(frame) - 1))

\* Mutant: the array is written as it is, closed by the delimiter.
writeToSerialPortUnstuffed(data) == <<port, data \o <<0>>>>

\* writeToSerialPort(data): what port.write receives. port.write on an
\* undefined port throws, which the callers test with port = 0.
writeToSerialPort(data) == <<port, cobsEncode(data)>>

----------------------------------------------------------------------------
(* Listeners: what each does when its event is emitted.  `st` is the part   *)
(* of the state a listener can change.                                      *)

State == [handles |-> handles, parsers |-> parsers, flushes |-> flushes,
          nPublished |-> nPublished, lastPublished |-> lastPublished]

\* data => eventEmitter.emit(name, data)
publish(ev, data, st) ==
  [st EXCEPT !.nPublished = @ + 1, !.lastPublished = <<ev, data>>]

\* `resolve` of init's promise, attached to 'ready'
onReady(h, st) ==
  [st EXCEPT !.handles = Settle([@ EXCEPT ![h].fired = @ + 1], h, "resolved")]

\* Mutant: the listener detaches itself and forgets to resolve.
onTargetReachedWithoutResolve(h, st) ==
  [st EXCEPT
     !.parsers[parser].targetReached =
        Remove(@, Listener("onTargetReached", h)),
     !.handles = [@ EXCEPT ![h].fired = @ + 1]]

\* const onTargetReached = () => { parser.off(...); resolve(); }
\* `parser` is read when the listener runs.
onTargetReached(h, st) ==
  [st EXCEPT
     !.parsers[parser].targetReached =
        Remove(@, Listener("onTargetReached", h)),
     !.handles = Settle([@ EXCEPT ![h].fired = @ + 1], h, "resolved")]

\* onPortOpen: port.flush(callback); `port` is read when the listener runs.
onPortOpen(st) == [st EXCEPT !.flushes = Append(@, port)]

invoke(l, ev, data, st) ==
  CASE l.fn = "emit" -> publish(ev, data, st)
    [] l.fn = "resolve" -> onReady(l.h, st)
    [] l.fn = "onTargetReached" -> onTargetReached(l.h, st)
    [] l.fn = "onPortOpen" -> onPortOpen(st)

\* Mutant: an event is handed to the first two listeners only (the
\* forwarder init() attached and the earliest one after it).
emitToEarliest(ls, ev, data, st) ==
  IF ls = <<>> THEN st
  ELSE IF Len(ls) = 1 THEN invoke(ls[1], ev, data, st)
  ELSE invoke(ls[2], ev, data, invoke(ls[1], ev, data, st))

\* EventEmitter.emit: the listeners attached when the event is emitted run
\* in the order they were attached.
RECURSIVE emit(_, _, _, _)
emit(ls, ev, data, st) ==
  IF ls = <<>> THEN st
  ELSE emit(Tail(ls), ev, data, invoke(Head(ls), ev, data, st))

\* Mutant: the listener is attached under the wrong event name.
onTargetReachedAttachedToOdometry(ps, h) ==
  [ps EXCEPT ![parser].odometry = Append(@, Listener("onTargetReached", h))]

\* parser.on('targetReached', onTargetReached), on the current parser
onTargetReachedAttached(ps, h) ==
  [ps EXCEPT ![parser].targetReached = Append(@, Listener("onTargetReached", h))]

\* Mutant: 'close' of the port is not forwarded.
portListenersWithoutClose ==
  [error      |-> <<Listener("emit", 0)>>,
   disconnect |-> <<Listener("emit", 0)>>,
   close      |-> <<>>,
   open       |-> <<Listener("onPortOpen", 0)>>]

\* The listeners init() attaches to the new port
portListeners ==
  [error      |-> <<Listener("emit", 0)>>,
   disconnect |-> <<Listener("emit", 0)>>,
   close      |-> <<Listener("emit", 0)>>,
   open       |-> <<Listener("onPortOpen", 0)>>]

\* Mutant: init's resolve listens for 'odometry' instead of 'ready'.
parserListenersReadyOnOdometry(h) ==
  [ready         |-> <<>>,
   odometry      |-> <<Listener("resolve", h), Listener("emit", 0)>>,
   targetReached |-> <<Listener("emit", 0)>>]

\* Mutant: 'odometry' of the parser is not forwarded.
parserListenersWithoutOdometry(h) ==
  [ready         |-> <<Listener("resolve", h)>>,
   odometry      |-> <<>>,
   targetReached |-> <<Listener("emit", 0)>>]

\* The listeners init() attaches to the new parser; h is init's promise
parserListeners(h) ==
  [ready         |-> <<Listener("resolve", h)>>,
   odometry      |-> <<Listener("emit", 0)>>,
   targetReached |-> <<Listener("emit", 0)>>]

----------------------------------------------------------------------------
(* The state after construction: constructor() does nothing. *)

constructed ==
  /\ port = 0
  /\ parser = 0
  /\ ports = <<>>
  /\ parsers = <<>>
  /\ handles = <<>>
  /\ timers = <<>>
  /\ flushes = <<>>
  /\ nWrites = 0
  /\ lastWrite = <<0, <<>>>>
  /\ nPublished = 0
  /\ lastPublished = <<"none", 0>>
  /\ ret = [op |-> "none", result |-> "none", h |-> 0]
  /\ nEvents = 0
  /\ plans = <<>>

Init ==
  /\ constructed
  /\ input = <<>>
  /\ output = <<>>

Returned(op, result, h) == [op |-> op, result |-> result, h |-> h]

Timer(h, fn, delay) == [h |-> h, fn |-> fn, delay |-> delay]

----------------------------------------------------------------------------
(* The public API *)

\* init(): with a port already there the reject is only scheduled; the new
\* port and parser are created and wired in either case.
init ==
  LET h == Len(handles) + 1
      q == Len(ports) + 1
  IN  /\ Len(ports) < MaxInits
      /\ Len(handles) < MaxHandles
      /\ handles' = Append(handles, Handle("ready", q))
      /\ timers' = IF port # 0 THEN Append(timers, Timer(h, "reject", 0))
                   ELSE timers
      /\ port' = q
      /\ parser' = q
      /\ ports' = Append(ports, portListeners)
      /\ parsers' = Append(parsers, parserListeners(h))
      /\ ret' = Returned("init", "promise", h)
      /\ UNCHANGED <<flushes, nWrites, lastWrite, nPublished, lastPublished,
                     nEvents>>

\* The calls that write a frame and then, when `waits`, return a promise
\* whose resolve is a one-shot 'targetReached' listener on the parser.
\* Without a port the write throws and the call ends there.
motion(op, data, waits) ==
  LET h == Len(handles) + 1
  IN  IF port = 0
        THEN /\ ret' = Returned(op, "threw", 0)
             /\ UNCHANGED <<port, parser, ports, parsers, handles, timers,
                            flushes, nWrites, lastWrite, nPublished,
                            lastPublished, nEvents>>
        ELSE /\ nWrites < MaxWrites
             /\ nWrites' = nWrites + 1
             /\ lastWrite' = writeToSerialPort(data)
             /\ IF waits
                  THEN /\ Len(handles) < MaxHandles
                       /\ handles' =
                            Append(handles, Handle("targetReached", parser))
                       /\ parsers' = onTargetReachedAttached(parsers, h)
                       /\ ret' = Returned(op, "promise", h)
                  ELSE /\ UNCHANGED <<handles, parsers>>
                       /\ ret' = Returned(op, "undefined", 0)
             /\ UNCHANGED <<port, parser, ports, timers, flushes, nPublished,
                            lastPublished, nEvents>>

\* Mutant: forward waits for 'targetReached' whatever the distance.
forwardWaitsAlways(distance) == TRUE

\* Whether the call returns a promise that waits for 'targetReached'
keepHeadingWaits(distance) == distance # 0
forwardWaits(distance) == distance # 0
reverseWaits(distance) == distance # 0
rotateWaits(angle) == TRUE
turnWaits(angle) == TRUE

abs(n) == IF n < 0 THEN -n ELSE n

keepHeadingDirection(speed) == IF speed > 0 THEN 1 ELSE 0

\* Mutant: the direction follows the size of the angle, not its sign.
rotateDirectionBySize(angle) == IF abs(angle) > 90 THEN 1 ELSE 0

rotateDirection(angle) == IF angle < 0 THEN 1 ELSE 0
turnDirection(angle) == IF angle < 0 THEN 1 ELSE 0

\* The second revision of rotate and turn exchanges the two direction bits.
rotateDirection2(angle) == IF angle < 0 THEN 0 ELSE 1

\* Mutant: the second revision of turn keeps the bits of the first.
turnDirection2Unchanged(angle) == IF angle < 0 THEN 1 ELSE 0

turnDirection2(angle) == IF angle < 0 THEN 0 ELSE 1

\* The array each call hands to writeToSerialPort
keepHeadingFrame(speed, heading, distance) ==
  <<requestStartFlag, 22, numberToHex(abs(speed)), numberToHex(heading),
    numberToHex(keepHeadingDirection(speed)), numberToHex(distance)>>

forwardFrame(speed, distance) ==
  <<requestStartFlag, 16, numberToHex(speed), numberToHex(distance)>>

\* Mutant: reverse sends the opcode of forward.
reverseFrameAsForward(speed, distance) ==
  <<requestStartFlag, 16, numberToHex(speed), numberToHex(distance)>>

reverseFrame(speed, distance) ==
  <<requestStartFlag, 17, numberToHex(speed), numberToHex(distance)>>

rotateFrame(speed, angle) ==
  <<requestStartFlag, 18, numberToHex(speed), numberToHex(abs(angle)),
    numberToHex(rotateDirection(angle))>>

rotateFrame2(speed, angle) ==
  <<requestStartFlag, 18, numberToHex(speed), numberToHex(abs(angle)),
    numberToHex(rotateDirection2(angle))>>

turnFrame(speed, angle, radius) ==
  <<requestStartFlag, 19, numberToHex(speed), numberToHex(abs(angle)),
    numberToHex(radius), numberToHex(turnDirection(angle))>>

turnFrame2(speed, angle, radius) ==
  <<requestStartFlag, 19, numberToHex(speed), numberToHex(abs(angle)),
    numberToHex(radius), numberToHex(turnDirection2(angle))>>

driveFrame(speedLeft, speedRight) ==
  <<requestStartFlag, 20, numberToHex(speedLeft), numberToHex(speedRight)>>

stopFrame(hard) == <<requestStartFlag, 21, numberToHex(hard)>>

resetIMUFrame == <<requestStartFlag, 32>>

keepHeading(speed, heading, distance) ==
  motion("keepHeading", keepHeadingFrame(speed, heading, distance),
         keepHeadingWaits(distance))

forward(speed, distance) ==
  motion("forward", forwardFrame(speed, distance), forwardWaits(distance))

reverse(speed, distance) ==
  motion("reverse", reverseFrame(speed, distance), reverseWaits(distance))

rotate(speed, angle) ==
  motion("rotate", rotateFrame(speed, angle), rotateWaits(angle))

turn(speed, angle, radius) ==
  motion("turn", turnFrame(speed, angle, radius), turnWaits(angle))

drive(speedLeft, speedRight) ==
  motion("drive", driveFrame(speedLeft, speedRight), FALSE)

\* The calls whose promise is resolved by a timer.  The write is made in the
\* promise's executor: when it throws the promise is rejected and no timer is
\* set.
\* Mutant: the timer is set before the write, so it is set even when the
\* write throws.
timedTimerFirst(op, data, delay) ==
  LET h == Len(handles) + 1
  IN  /\ Len(handles) < MaxHandles
      /\ timers' = Append(timers, Timer(h, "resolve", delay))
      /\ IF port = 0
           THEN /\ handles' =
                     Append(handles,
                            [Handle("timer", 0) EXCEPT !.status = "rejected"])
                /\ UNCHANGED <<nWrites, lastWrite>>
           ELSE /\ nWrites < MaxWrites
                /\ nWrites' = nWrites + 1
                /\ lastWrite' = writeToSerialPort(data)
                /\ handles' = Append(handles, Handle("timer", 0))
      /\ ret' = Returned(op, "promise", h)
      /\ UNCHANGED <<port, parser, ports, parsers, flushes, nPublished,
                     lastPublished, nEvents>>

timed(op, data, delay) ==
  LET h == Len(handles) + 1
  IN  /\ Len(handles) < MaxHandles
      /\ IF port = 0
           THEN /\ handles' =
                     Append(handles,
                            [Handle("timer", 0) EXCEPT !.status = "rejected"])
                /\ UNCHANGED <<nWrites, lastWrite, timers>>
           ELSE /\ nWrites < MaxWrites
                /\ nWrites' = nWrites + 1
                /\ lastWrite' = writeToSerialPort(data)
                /\ handles' = Append(handles, Handle("timer", 0))
                /\ timers' = Append(timers, Timer(h, "resolve", delay))
      /\ ret' = Returned(op, "promise", h)
      /\ UNCHANGED <<port, parser, ports, parsers, flushes, nPublished,
                     lastPublished, nEvents>>

\* Mutant: the two delays are exchanged.
stopDelayExchanged(hard) == IF hard # 0 THEN settlingDelay ELSE 0

stopDelay(hard) == IF hard # 0 THEN 0 ELSE settlingDelay

stop(hard) ==
  timed("stop", stopFrame(hard), stopDelay(hard))

resetIMU ==
  timed("resetIMU", resetIMUFrame, settlingDelay)

----------------------------------------------------------------------------
(* What happens to the controller from outside: timers, ports, parsers *)

\* A timer runs its callback.  Timers of the same delay run in the order they
\* were set, and a timer set earlier with a shorter delay runs first.
timerFires(i) ==
  /\ i \in 1..Len(timers)
  /\ \A j \in 1..(i - 1) : timers[j].delay > timers[i].delay
  /\ handles' = Settle(handles, timers[i].h,
                       IF timers[i].fn = "resolve" THEN "resolved" ELSE "rejected")
  /\ timers' = SubSeq(timers, 1, i - 1) \o SubSeq(timers, i + 1, Len(timers))
  /\ UNCHANGED <<port, parser, ports, parsers, flushes, nWrites, lastWrite,
                 nPublished, lastPublished, ret, nEvents>>

\* An emitter of the controller emits event ev with `data`: the listeners
\* `ls` attached to it run.
emitted(ls, ev, data) ==
  LET st == emit(ls, ev, data, State)
  IN  /\ nEvents < MaxEvents
      /\ nEvents' = nEvents + 1
      /\ handles' = st.handles
      /\ parsers' = st.parsers
      /\ nPublished' = st.nPublished
      /\ lastPublished' = st.lastPublished
      /\ flushes' = st.flushes
      /\ UNCHANGED <<port, parser, ports, timers, nWrites, lastWrite, ret>>

parserReady(p) == p \in 1..Len(parsers) /\ emitted(parsers[p].ready, "ready", 0)

parserOdometry(p, data) ==
  p \in 1..Len(parsers) /\ emitted(parsers[p].odometry, "odometry", data)

parserTargetReached(p) ==
  p \in 1..Len(parsers) /\ emitted(parsers[p].targetReached, "targetReached", 0)

portError(q, error) ==
  q \in 1..Len(ports) /\ emitted(ports[q].error, "error", error)

portDisconnect(q) ==
  q \in 1..Len(ports) /\ emitted(ports[q].disconnect, "disconnect", 0)

portClose(q) == q \in 1..Len(ports) /\ emitted(ports[q].close, "close", 0)

portOpen(q) == q \in 1..Len(ports) /\ emitted(ports[q].open, "open", 0)

\* The callback onPortOpen gave to port.flush runs, with an error or without:
\* error => { if (error) eventEmitter.emit('error', error) }
flushed(error) ==
  /\ flushes # <<>>
  /\ flushes' = Tail(flushes)
  /\ IF error # 0
       THEN nPublished' = nPublished + 1 /\ lastPublished' = <<"error", error>>
       ELSE UNCHANGED <<nPublished, lastPublished>>
  /\ UNCHANGED <<port, parser, ports, parsers, handles, timers, nWrites,
                 lastWrite, ret, nEvents>>

----------------------------------------------------------------------------
\* A step of the controller that is no step of goToXY
Idle == UNCHANGED <<plans, input, output>>

Next ==
  \/ (init) /\ Idle
  \/ (\E s \in Speeds, hd \in Headings, d \in Distances : keepHeading(s, hd, d)) /\ Idle
  \/ (\E s \in Speeds, d \in Distances : forward(s, d)) /\ Idle
  \/ (\E s \in Speeds, d \in Distances : reverse(s, d)) /\ Idle
  \/ (\E s \in Speeds, a \in Angles : rotate(s, a)) /\ Idle
  \/ (\E s \in Speeds, a \in Angles, r \in Radii : turn(s, a, r)) /\ Idle
  \/ (\E l \in Speeds, r \in Speeds : drive(l, r)) /\ Idle
  \/ (\E hard \in HardFlags : stop(hard)) /\ Idle
  \/ (resetIMU) /\ Idle
  \/ (\E i \in 1..Len(timers) : timerFires(i)) /\ Idle
  \/ (\E p \in 1..Len(parsers) : parserReady(p)) /\ Idle
  \/ (\E p \in 1..Len(parsers), data \in OdometryData : parserOdometry(p, data)) /\ Idle
  \/ (\E p \in 1..Len(parsers) : parserTargetReached(p)) /\ Idle
  \/ (\E q \in 1..Len(ports), e \in Errors : portError(q, e)) /\ Idle
  \/ (\E q \in 1..Len(ports) : portDisconnect(q)) /\ Idle
  \/ (\E q \in 1..Len(ports) : portClose(q)) /\ Idle
  \/ (\E q \in 1..Len(ports) : portOpen(q)) /\ Idle
  \/ (\E e \in {0} \cup Errors : flushed(e)) /\ Idle

Spec == Init /\ [][Next]_vars

----------------------------------------------------------------------------
(* Vocabulary of the properties *)

\* The promises that wait for 'targetReached', for 'ready', for a timer
Waiting == {h \in DOMAIN handles : handles[h].by = "targetReached"}
Inits == {h \in DOMAIN handles : handles[h].by = "ready"}
Timed == {h \in DOMAIN handles : handles[h].by = "timer"}

IsPending(h) == handles[h].status = "pending"
IsResolved(h) == handles[h].status = "resolved"

\* The step created exactly one promise, `new`, and left the others alone
Created(new) ==
  /\ Len(handles') = Len(handles) + 1
  /\ SubSeq(handles', 1, Len(handles)) = handles
  /\ handles'[Len(handles) + 1] = new

\* How many times listener l is attached to parser p of ps for
\* 'targetReached'
AttachedIn(ps, p, l) ==
  Cardinality({i \in DOMAIN ps[p].targetReached : ps[p].targetReached[i] = l})

Attached(p, l) == AttachedIn(parsers, p, l)

----------------------------------------------------------------------------
(* C1: forward, reverse and keepHeading with a nonzero distance on an open  *)
(* port return a new pending promise; a promise that waits for              *)
(* 'targetReached' leaves the pending status only by becoming resolved, in  *)
(* a step in which the parser it was issued on emits 'targetReached'; once  *)
(* settled its status never changes again.                                  *)

C1_ReturnsPending ==
  \A s \in Speeds, hd \in Headings, d \in Distances \ {0} :
    (port # 0 /\ (forward(s, d) \/ reverse(s, d) \/ keepHeading(s, hd, d)))
      => /\ Created(Handle("targetReached", parser))
         /\ ret'.result = "promise"
         /\ ret'.h = Len(handles) + 1

C1_ResolvedByTargetReached ==
  \A h \in Waiting :
    (IsPending(h) /\ handles'[h].status # "pending")
      => /\ handles'[h].status = "resolved"
         /\ parserTargetReached(handles[h].parser)

C1_SettledOnce ==
  \A h \in Waiting : ~IsPending(h) => handles'[h].status = handles[h].status

C1_UnresolvedUntilTargetReached ==
  [][C1_ReturnsPending /\ C1_ResolvedByTargetReached /\ C1_SettledOnce]_vars

\* One forward/reverse/keepHeading promise was resolved by the one event so
\* far, and the promise of a call made after that event is still pending.
C1_Witness ==
  \E h1, h2 \in Waiting :
    /\ h1 < h2
    /\ IsResolved(h1) /\ handles[h1].fired = 1
    /\ IsPending(h2) /\ handles[h2].fired = 0
    /\ handles[h1].parser = handles[h2].parser
    /\ nEvents = 1
    /\ ret.op \in {"forward", "reverse", "keepHeading"} /\ ret.h = h2

----------------------------------------------------------------------------
(* C2 as stated: each of forward, reverse, keepHeading, rotate and turn,    *)
(* called with a zero distance or angle on an open port, writes and         *)
(* returns at once, attaching no listener and creating no pending promise.  *)

ZeroCallCompletes(call) ==
  (port # 0 /\ call)
    => /\ nWrites' = nWrites + 1
       /\ ret'.result = "undefined"
       /\ UNCHANGED <<handles, parsers, timers>>

C2_Original ==
  [][/\ \A s \in Speeds : ZeroCallCompletes(forward(s, 0))
     /\ \A s \in Speeds : ZeroCallCompletes(reverse(s, 0))
     /\ \A s \in Speeds, hd \in Headings : ZeroCallCompletes(keepHeading(s, hd, 0))
     /\ \A s \in Speeds : ZeroCallCompletes(rotate(s, 0))
     /\ \A s \in Speeds, r \in Radii : ZeroCallCompletes(turn(s, 0, r))]_vars

(* C2 as amended: forward, reverse and keepHeading with a zero distance     *)
(* write and return at once with no listener attached; rotate and turn      *)
(* attach a 'targetReached' listener and return a pending promise whatever  *)
(* the angle, zero included.                                                *)

CallWaits(call) ==
  (port # 0 /\ call)
    => /\ nWrites' = nWrites + 1
       /\ ret'.result = "promise"
       /\ Created(Handle("targetReached", parser))
       /\ AttachedIn(parsers', parser, Listener("onTargetReached", ret'.h)) = 1

C2_ZeroDistanceCompletes ==
  [][/\ \A s \in Speeds : ZeroCallCompletes(forward(s, 0))
     /\ \A s \in Speeds : ZeroCallCompletes(reverse(s, 0))
     /\ \A s \in Speeds, hd \in Headings : ZeroCallCompletes(keepHeading(s, hd, 0))
     /\ \A s \in Speeds, a \in Angles : CallWaits(rotate(s, a))
     /\ \A s \in Speeds, a \in Angles, r \in Radii : CallWaits(turn(s, a, r))]_vars

\* forward with distance 0 has returned undefined after its write, while the
\* promise of an earlier call is still pending.
C2_Witness ==
  /\ ret = Returned("forward", "undefined", 0)
  /\ lastWrite = writeToSerialPort(<<requestStartFlag, 16, 20, 0>>)
  /\ \E h \in Waiting : IsPending(h)

----------------------------------------------------------------------------
(* C3 as stated: in every state the number of per-command 'targetReached'   *)
(* listeners attached to the parsers equals the number of unresolved        *)
(* completion promises.                                                     *)

PerCommandListeners ==
  UNION {{<<p, i>> : i \in {j \in DOMAIN parsers[p].targetReached :
                              parsers[p].targetReached[j].fn = "onTargetReached"}} :
         p \in DOMAIN parsers}

PendingCompletions == {h \in Waiting : IsPending(h)}

C3_Original == Cardinality(PerCommandListeners) = Cardinality(PendingCompletions)

----------------------------------------------------------------------------
(* C4 as stated: a 'targetReached' event resolves only the earliest-issued  *)
(* of the promises outstanding on the parser that emits it.                 *)

OutstandingOn(p) == {h \in PendingCompletions : handles[h].parser = p}

Earliest(S) == CHOOSE h \in S : \A g \in S : h <= g

C4_Original ==
  [][\A p \in DOMAIN parsers :
       (parserTargetReached(p) /\ OutstandingOn(p) # {})
         => {h \in OutstandingOn(p) : handles'[h].status = "resolved"}
              = {Earliest(OutstandingOn(p))}]_vars

(* C4 as amended: a 'targetReached' event resolves, in its one step, every  *)
(* promise outstanding on the parser that emits it, and no other promise;   *)
(* none of them stays pending for a further event.                          *)

C4_EventResolvesAllOutstanding ==
  [][\A p \in DOMAIN parsers :
       parserTargetReached(p)
         => \A h \in PendingCompletions :
              IF handles[h].parser = p
                THEN handles'[h].status = "resolved"
                ELSE handles'[h] = handles[h]]_vars

\* Two promises issued on one parser, both resolved by the only event so far
C4_Witness ==
  \E h1, h2 \in Waiting :
    /\ h1 < h2
    /\ handles[h1].parser = handles[h2].parser
    /\ IsResolved(h1) /\ handles[h1].fired = 1
    /\ IsResolved(h2) /\ handles[h2].fired = 1
    /\ nEvents = 1

----------------------------------------------------------------------------
(* C5 as stated: at most one pending completion is tracked.                 *)

C5_Original == Cardinality(PendingCompletions) <= 1

(* C5 as amended: one pending completion is tracked per distance/angle      *)
(* command issued and not completed, each with exactly one 'targetReached'  *)
(* listener, on the parser that was current when it was issued; several     *)
(* can be tracked at once, never more than frames were written.             *)

C5_OnePerOutstandingCommand ==
  /\ \A h \in PendingCompletions :
       \A p \in DOMAIN parsers :
         Attached(p, Listener("onTargetReached", h))
           = IF p = handles[h].parser THEN 1 ELSE 0
  /\ Cardinality(PendingCompletions) <= nWrites

\* Two completions pending at once
C5_Witness ==
  /\ Cardinality(PendingCompletions) = 2
  /\ \A h \in PendingCompletions : handles[h].fired = 0

----------------------------------------------------------------------------
(* C6 as stated: init() called while a port is active creates no port and   *)
(* no parser and leaves the existing port, parser, their listeners and the  *)
(* promises created before unchanged.                                       *)

C6_Original ==
  [][(port # 0 /\ init)
       => /\ UNCHANGED <<port, parser, ports, parsers>>
          /\ SubSeq(handles', 1, Len(handles)) = handles]_vars

\* What C3 says does hold while init() has been called only once.
C3_WhileInitCalledOnce == Len(parsers) <= 1 => C3_Original

----------------------------------------------------------------------------
(* C7: stop(hard) on an open port writes its frame in the call and returns  *)
(* a promise that a timer resolves, set to 0 when hard is truthy and to the *)
(* settling delay otherwise; the call attaches no listener and leaves the   *)
(* other promises alone; the promise is resolved only by its timer, which   *)
(* stays scheduled and able to run whatever the parser emits.               *)

C7_StopCall ==
  \A hard \in HardFlags :
    (port # 0 /\ stop(hard))
      => /\ nWrites' = nWrites + 1
         /\ lastWrite' = <<port, cobsEncode(<<163, 21, hard>>)>>
         /\ Created(Handle("timer", 0))
         /\ timers' = Append(timers, Timer(Len(handles) + 1, "resolve",
                                           IF hard = 0 THEN 1000 ELSE 0))
         /\ UNCHANGED <<parsers, ports, port, parser>>

C7_ResolvedByItsTimer ==
  \A h \in Timed :
    (IsPending(h) /\ handles'[h].status # "pending")
      => /\ handles'[h].status = "resolved"
         /\ \E i \in DOMAIN timers : timers[i].h = h /\ timerFires(i)

C7_EventsLeaveTimers ==
  \A p \in DOMAIN parsers, d \in OdometryData :
    (parserTargetReached(p) \/ parserOdometry(p, d) \/ parserReady(p))
      => /\ timers' = timers
         /\ \A h \in Timed : handles'[h] = handles[h]

C7_TimerStaysScheduled ==
  /\ \A h \in Timed :
       IsPending(h) =>
         Cardinality({i \in DOMAIN timers :
                        timers[i].h = h /\ timers[i].fn = "resolve"}) = 1
  /\ timers # <<>> => ENABLED (\E i \in DOMAIN timers : timerFires(i))

C7_StopResolvesByTimer ==
  /\ []C7_TimerStaysScheduled
  /\ [][C7_StopCall /\ C7_ResolvedByItsTimer /\ C7_EventsLeaveTimers]_vars

\* The promise of stop(0) is resolved, no event was ever emitted, and a
\* completion issued before is still pending.
C7_Witness ==
  /\ ret.op = "stop"
  /\ lastWrite = writeToSerialPort(<<requestStartFlag, 21, 0>>)
  /\ IsResolved(ret.h)
  /\ nEvents = 0
  /\ PendingCompletions # {}

----------------------------------------------------------------------------
(* C8: the promise of init() becomes resolved only in a step in which the   *)
(* parser created by that call emits 'ready'; a 'ready' of that parser      *)
(* resolves it if it is still pending; once settled it never changes, also  *)
(* when 'ready' is emitted again.  The promise of an init() made with no    *)
(* port active is never rejected and is resolved exactly when 'ready' has   *)
(* been emitted.                                                            *)

C8_ResolvedByReady ==
  \A h \in Inits :
    (IsPending(h) /\ handles'[h].status = "resolved")
      => parserReady(handles[h].parser)

C8_ReadyResolves ==
  \A p \in DOMAIN parsers :
    parserReady(p)
      => \A h \in Inits :
           (handles[h].parser = p /\ IsPending(h))
             => handles'[h].status = "resolved"

C8_SettledOnce ==
  \A h \in Inits : ~IsPending(h) => handles'[h].status = handles[h].status

C8_FirstInit ==
  \A h \in Inits :
    /\ IsResolved(h) => handles[h].fired >= 1
    /\ handles[h].parser = 1
         => /\ handles[h].status # "rejected"
            /\ handles[h].fired >= 1 => IsResolved(h)

C8_InitResolvedByReady ==
  /\ []C8_FirstInit
  /\ [][C8_ResolvedByReady /\ C8_ReadyResolves /\ C8_SettledOnce]_vars

\* 'ready' was emitted twice by the parser of an init() whose promise is
\* resolved.
C8_Witness ==
  \E h \in Inits : IsResolved(h) /\ handles[h].fired = 2

----------------------------------------------------------------------------
(* C9: an 'odometry' event of a parser is published, with its data, in the  *)
(* step in which it is emitted, and that step changes no promise, no        *)
(* listener and no timer.                                                   *)

C9_OdometryPublishedAtOnce ==
  [][\A p \in DOMAIN parsers, d \in OdometryData :
       parserOdometry(p, d)
         => /\ nPublished' = nPublished + 1
            /\ lastPublished' = <<"odometry", d>>
            /\ UNCHANGED <<handles, parsers, timers>>]_vars

\* The only event so far was an 'odometry', it was published, and a
\* completion is pending.
C9_Witness ==
  /\ lastPublished[1] = "odometry"
  /\ nPublished = 1
  /\ nEvents = 1
  /\ PendingCompletions # {}

----------------------------------------------------------------------------
(* C10: 'error', 'close' and 'disconnect' of a port are published under the *)
(* same name and change nothing else; 'open' only starts a flush, whose     *)
(* callback publishes 'error' when the flush failed and changes nothing     *)
(* else.  The port, the parser, the listeners, the promises and the timers  *)
(* are as before.                                                           *)

OnlyPublished(ev, data) ==
  /\ nPublished' = nPublished + 1
  /\ lastPublished' = <<ev, data>>
  /\ UNCHANGED <<port, parser, ports, parsers, handles, timers, flushes,
                 nWrites, lastWrite, ret>>

C10_PortEventsOnlyPublished ==
  [][/\ \A q \in DOMAIN ports :
          /\ \A e \in Errors : portError(q, e) => OnlyPublished("error", e)
          /\ portDisconnect(q) => OnlyPublished("disconnect", 0)
          /\ portClose(q) => OnlyPublished("close", 0)
          /\ portOpen(q)
               => /\ flushes' = Append(flushes, port)
                  /\ UNCHANGED <<port, parser, ports, parsers, handles, timers,
                                 nWrites, lastWrite, ret, nPublished,
                                 lastPublished>>
     /\ \A e \in Errors :
          flushed(e)
            => /\ nPublished' = nPublished + 1
               /\ lastPublished' = <<"error", e>>
               /\ UNCHANGED <<port, parser, ports, parsers, handles, timers,
                              nWrites, lastWrite, ret>>]_vars

\* A 'close' of the port was published while the promise of init() and a
\* completion are pending.
C10_Witness ==
  /\ lastPublished = <<"close", 0>>
  /\ nEvents = 1
  /\ \E h \in Inits : IsPending(h)
  /\ PendingCompletions # {}

----------------------------------------------------------------------------
(* The command encoders as functions: a call is drawn, and the array it     *)
(* hands to writeToSerialPort is computed.  The controller stays as         *)
(* constructed.  Arguments that reach numberToHex without Math.abs are      *)
(* drawn from the naturals.                                                 *)

Revisions == {1, 2}
Bytes == 0..255
RotateAngles == -180..180
Magnitudes == {0, 20, 163, 255, 256, 300}
SignedSpeeds == {-300, -20, 0, 20, 300}
SignedAngles == {-300, -90, 0, 90, 300}

Call(op, rev, args) == [op |-> op, rev |-> rev, args |-> args]

\* The controller as constructed, and the call made
InitEncoder ==
  /\ constructed
  /\ output = <<>>
  /\ input \in
     {Call("rotate", r, <<s, a>>) : r \in Revisions, s \in Bytes,
                                    a \in RotateAngles}
     \cup {Call("rotate", r, <<s, a>>) : r \in Revisions, s \in Magnitudes,
                                         a \in SignedAngles}
     \cup {Call("turn", r, <<s, a, rd>>) : r \in Revisions, s \in Magnitudes,
                                           a \in SignedAngles,
                                           rd \in Magnitudes}
     \cup {Call("keepHeading", 1, <<s, hd, d>>) : s \in SignedSpeeds,
                                                  hd \in Magnitudes,
                                                  d \in Magnitudes}
     \cup {Call("forward", r, <<s, d>>) : r \in Revisions, s \in Magnitudes,
                                          d \in Magnitudes}
     \cup {Call("reverse", r, <<s, d>>) : r \in Revisions, s \in Magnitudes,
                                          d \in Magnitudes}
     \cup {Call("drive", r, <<l, rt>>) : r \in Revisions, l \in Magnitudes,
                                         rt \in Magnitudes}
     \cup {Call("stop", r, <<hard>>) : r \in Revisions, hard \in HardFlags}
     \cup {Call("resetIMU", 1, <<>>)}

encodes(op, rev, frame) ==
  /\ input.op = op
  /\ input.rev = rev
  /\ output = <<>>
  /\ output' = frame
  /\ UNCHANGED <<controller, input>>

NextEncoder ==
  \/ encodes("keepHeading", 1,
             keepHeadingFrame(input.args[1], input.args[2], input.args[3]))
  \/ \E r \in Revisions :
       encodes("forward", r, forwardFrame(input.args[1], input.args[2]))
  \/ \E r \in Revisions :
       encodes("reverse", r, reverseFrame(input.args[1], input.args[2]))
  \/ encodes("rotate", 1, rotateFrame(input.args[1], input.args[2]))
  \/ encodes("rotate", 2, rotateFrame2(input.args[1], input.args[2]))
  \/ encodes("turn", 1,
             turnFrame(input.args[1], input.args[2], input.args[3]))
  \/ encodes("turn", 2,
             turnFrame2(input.args[1], input.args[2], input.args[3]))
  \/ \E r \in Revisions :
       encodes("drive", r, driveFrame(input.args[1], input.args[2]))
  \/ \E r \in Revisions : encodes("stop", r, stopFrame(input.args[1]))
  \/ encodes("resetIMU", 1, resetIMUFrame)

SpecEncoder == InitEncoder /\ [][NextEncoder]_vars

\* The call drawn was `op` and its array has been computed
Encoded(op) == output # <<>> /\ input.op = op

sign(n) == IF n < 0 THEN -1 ELSE IF n > 0 THEN 1 ELSE 0

\* The array rotate builds for the call drawn, in the call's revision
rotateFrameOf(rev, speed, angle) ==
  IF rev = 1 THEN rotateFrame(speed, angle) ELSE rotateFrame2(speed, angle)

InRotateDomain ==
  Encoded("rotate") /\ input.args[1] \in Bytes /\ input.args[2] \in RotateAngles

\* C11: for every speed in 0..255 and angle in -180..180, rotate builds
\* [0xA3, 0x12, speed, abs(angle), direction] with the direction 0 or 1 and
\* the same for every angle of the same sign; the array for the opposite
\* nonzero angle differs in the direction byte and in no other.
C11_RotateFrame ==
  InRotateDomain =>
    LET speed == input.args[1]
        angle == input.args[2]
        opposite == rotateFrameOf(input.rev, speed, -angle)
    IN  /\ Len(output) = 5
        /\ SubSeq(output, 1, 4) = <<163, 18, speed, abs(angle)>>
        /\ output[5] \in {0, 1}
        /\ output[5] = rotateFrameOf(input.rev, speed, sign(angle))[5]
        /\ angle # 0 =>
             /\ SubSeq(opposite, 1, 4) = SubSeq(output, 1, 4)
             /\ opposite[5] # output[5]

\* rotate(20, -90) has been encoded
C11_Witness ==
  InRotateDomain /\ input.args = <<20, -90>> /\ output[4] = 90

----------------------------------------------------------------------------
(* The writes of the controller *)

\* This step hands one frame to the current port, and its payload starts
\* with the start marker and `opcode`.  (A call leaves its name in ret.op.)
Writes(opcode) ==
  /\ nWrites' = nWrites + 1
  /\ lastWrite'[1] = port
  /\ Len(cobsDecode(lastWrite'[2])) >= 2
  /\ SubSeq(cobsDecode(lastWrite'[2]), 1, 2) = <<requestStartFlag, opcode>>

\* The one-shot listeners attached: the parser and the promise of each
CompletionListeners ==
  UNION {{<<p, l.h>> : l \in {parsers[p].targetReached[j] :
                                j \in DOMAIN parsers[p].targetReached}
                              \ {Listener("emit", 0)}} :
         p \in DOMAIN parsers}

\* C12: with the port set, every call of a motion primitive makes exactly
\* one write, whose payload without the stuffing starts with 0xA3 and the
\* opcode of the primitive; and a step that writes nothing attaches no
\* completion listener and sets no timer that resolves a command.
C12_OneWriteWithOpcode ==
  [][/\ port # 0 =>
         CASE ret'.op = "forward" ->
                \A s \in Speeds, d \in Distances : forward(s, d) => Writes(16)
           [] ret'.op = "reverse" ->
                \A s \in Speeds, d \in Distances : reverse(s, d) => Writes(17)
           [] ret'.op = "rotate" ->
                \A s \in Speeds, a \in Angles : rotate(s, a) => Writes(18)
           [] ret'.op = "turn" ->
                \A s \in Speeds, a \in Angles, r \in Radii :
                  turn(s, a, r) => Writes(19)
           [] ret'.op = "drive" ->
                \A l \in Speeds, r \in Speeds : drive(l, r) => Writes(20)
           [] ret'.op = "stop" ->
                \A hard \in HardFlags : stop(hard) => Writes(21)
           [] ret'.op = "keepHeading" ->
                \A s \in Speeds, hd \in Headings, d \in Distances :
                  keepHeading(s, hd, d) => Writes(22)
           [] ret'.op = "resetIMU" -> resetIMU => Writes(32)
           [] OTHER -> TRUE
     /\ (nWrites' = nWrites /\ parsers' # parsers)
          => CompletionListeners' \subseteq CompletionListeners
     /\ (nWrites' = nWrites /\ Len(timers') > Len(timers))
          => timers'[Len(timers')].fn # "resolve"
    ]_vars

\* reverse has written a frame and waits for its completion
C12_Witness ==
  /\ ret.op = "reverse" /\ ret.result = "promise"
  /\ SubSeq(cobsDecode(lastWrite[2]), 1, 2) = <<163, 17>>
  /\ <<parser, ret.h>> \in CompletionListeners

----------------------------------------------------------------------------
(* parsers/odometry.js as a function: a payload is drawn and decoded.       *)
(* The heading is kept in hundredths, the integer parseInt returns before   *)
(* the division by 100.                                                     *)

Directions == {0, 1, 2, 255}
Ticks == {0, 5, 10, 255}

\* Mutant: a zero direction byte counts forwards.
motorDirectionForwards(byte) == IF byte = 0 THEN 1 ELSE byte

\* data[i] || -1
motorDirection(byte) == IF byte = 0 THEN -1 ELSE byte

\* The digits of toString(2), most significant first
RECURSIVE toBinary(_)
toBinary(n) == IF n < 2 THEN <<n>> ELSE toBinary(n \div 2) \o <<n % 2>>

\* robotlib's parseDecToBinary: the binary string of a byte, 8 digits long
parseDecToBinary(byte) ==
  [i \in 1..(8 - Len(toBinary(byte))) |-> 0] \o toBinary(byte)

\* parseInt(string, 2)
RECURSIVE parseInt2(_)
parseInt2(digits) ==
  IF digits = <<>> THEN 0
  ELSE 2 * parseInt2(SubSeq(digits, 1, Len(digits) - 1)) + digits[Len(digits)]

\* Mutant: the heading is read with the low byte first.
odometryLsbFirst(data) ==
  LET hundredths == parseInt2(parseDecToBinary(data[6])
                                \o parseDecToBinary(data[5]))
  IN  [leftTicks |-> data[2] * motorDirection(data[1]),
       rightTicks |-> data[4] * motorDirection(data[3]),
       hundredths |-> hundredths]

odometry(data) ==
  LET leftMotorDirection == motorDirection(data[1])
      deltaLeftTicks == data[2]
      rightMotorDirection == motorDirection(data[3])
      deltaRightTicks == data[4]
      hundredths == parseInt2(parseDecToBinary(data[5])
                                \o parseDecToBinary(data[6]))
  IN  [leftTicks |-> deltaLeftTicks * leftMotorDirection,
       rightTicks |-> deltaRightTicks * rightMotorDirection,
       hundredths |-> hundredths]

\* The controller as constructed, and the payload received
InitOdometry ==
  /\ constructed
  /\ output = <<>>
  /\ input \in
     {<<1, 10, 0, 5, msb, lsb>> : msb \in Bytes, lsb \in Bytes}
     \cup {<<ld, lt, rd, rt, 1, 44>> : ld \in Directions, lt \in Ticks,
                                       rd \in Directions, rt \in Ticks}

decodes ==
  /\ output = <<>>
  /\ output' = odometry(input)
  /\ UNCHANGED <<controller, input>>

NextOdometry == decodes

SpecOdometry == InitOdometry /\ [][NextOdometry]_vars

Decoded == output # <<>>

\* C13: for every 6-byte payload the ticks are the delta times the direction
\* byte, a zero direction byte counting as -1; [1, 10, 0, 5, _, _] gives 10
\* and -5; and every payload is decoded to a value.
C13_Ticks ==
  Decoded =>
    /\ DOMAIN output = {"leftTicks", "rightTicks", "hundredths"}
    /\ output.leftTicks \in Int /\ output.rightTicks \in Int
    /\ output.leftTicks
         = input[2] * (IF input[1] = 0 THEN -1 ELSE input[1])
    /\ output.rightTicks
         = input[4] * (IF input[3] = 0 THEN -1 ELSE input[3])
    /\ SubSeq(input, 1, 4) = <<1, 10, 0, 5>>
         => output.leftTicks = 10 /\ output.rightTicks = -5

\* A payload with the left wheel going backwards has been decoded
C13_Witness ==
  Decoded /\ SubSeq(input, 1, 4) = <<0, 10, 2, 5>> /\ output.leftTicks = -10

----------------------------------------------------------------------------
(* The magnitude bytes of the encoders *)

clamped(n) == IF n > 255 THEN 255 ELSE n

\* Where each quantity of a call stands in its array: <<argument, byte>>
MagnitudeBytes(op) ==
  CASE op = "keepHeading" -> {<<1, 3>>, <<2, 4>>, <<3, 6>>}
    [] op \in {"forward", "reverse", "drive", "rotate"} -> {<<1, 3>>, <<2, 4>>}
    [] op = "turn" -> {<<1, 3>>, <<2, 4>>, <<3, 5>>}
    [] OTHER -> {}

\* C14: the byte written for the magnitude of every quantity passed to a
\* command encoder (speed, distance, angle, heading, radius) is abs(value)
\* clamped to 0..255.
C14_Original ==
  output # <<>> =>
    \A m \in MagnitudeBytes(input.op) :
      output[m[2]] = clamped(abs(input.args[m[1]]))

----------------------------------------------------------------------------
(* The direction bytes of rotate and turn against keepHeading's *)

turnFrameOf(rev, speed, angle, radius) ==
  IF rev = 1 THEN turnFrame(speed, angle, radius)
  ELSE turnFrame2(speed, angle, radius)

\* The direction byte keepHeading writes for a speed of value n
keepHeadingBit(n) == keepHeadingFrame(n, 0, 0)[5]

\* The direction bytes rotate and turn write for an angle in a revision
rotateBit(rev, angle) == rotateFrameOf(rev, 20, angle)[5]
turnBit(rev, angle) == turnFrameOf(rev, 20, angle, 50)[6]

EncodedDirection == Encoded("rotate") \/ Encoded("turn")

\* C15 as claimed: in both revisions the direction byte of rotate and turn
\* is the inverse of the byte keepHeading writes for a speed of the same
\* sign (positive or negative), and rotate and turn agree within a revision.
C15_Original ==
  EncodedDirection =>
    LET angle == input.args[2]
        direction == output[Len(output)]
    IN  /\ angle # 0 => direction = 1 - keepHeadingBit(angle)
        /\ rotateBit(input.rev, angle) = turnBit(input.rev, angle)

\* C15: rotate and turn agree within a revision.  For a nonzero angle the
\* first revision writes the inverse of keepHeading's byte and the second
\* revision writes keepHeading's byte; for the angle 0 the first revision
\* writes 0 and the second 1.
C15_DirectionBits ==
  EncodedDirection =>
    LET angle == input.args[2]
        direction == output[Len(output)]
    IN  /\ direction = rotateBit(input.rev, angle)
        /\ direction = turnBit(input.rev, angle)
        /\ angle # 0 /\ input.rev = 1 => direction = 1 - keepHeadingBit(angle)
        /\ angle # 0 /\ input.rev = 2 => direction = keepHeadingBit(angle)
        /\ angle = 0 => direction = input.rev - 1

\* The second revision of turn has encoded a turn to the negative side
C15_Witness ==
  /\ Encoded("turn") /\ input.rev = 2 /\ input.args[2] = -90
  /\ output[6] = 0 /\ keepHeadingBit(-90) = 0

----------------------------------------------------------------------------
(* The heading of an odometry payload *)

\* The 8-digit binary string of a byte, and the integer a string reads as
binary8(byte) == [i \in 1..8 |-> (byte \div 2 ^ (8 - i)) % 2]
base2(digits) ==
  LET RECURSIVE value(_)
      value(n) == IF n = 0 THEN 0 ELSE 2 * value(n - 1) + digits[n]
  IN  value(Len(digits))

bigEndian(msb, lsb) == msb * 256 + lsb

----------------------------------------------------------------------------
(* The bytes on the wire *)

delimiter == 0

\* C17: the bytes handed to port.write hold the delimiter as their last byte
\* and nowhere else, whatever the command and its arguments, an argument
\* byte equal to the delimiter included.
C17_DelimiterOnlyCloses ==
  nWrites > 0 =>
    LET bytes == lastWrite[2]
    IN  /\ bytes # <<>>
        /\ bytes[Len(bytes)] = delimiter
        /\ \A i \in 1..(Len(bytes) - 1) : bytes[i] # delimiter

\* forward(20, 0) has been written: its distance byte is the delimiter value
C17_Witness ==
  /\ ret.op = "forward" /\ ret.result = "undefined"
  /\ cobsDecode(lastWrite[2]) = <<163, 16, 20, 0>>
  /\ lastWrite[2] = <<4, 163, 16, 20, 1, 0>>

----------------------------------------------------------------------------
(* The frame codec as a function: a payload is drawn, encoded as            *)
(* writeToSerialPort encodes it, and decoded again.                         *)

MaxLen == 4
Alphabet == {0, 1, 163, 255}

RECURSIVE SeqsUpTo(_)
SeqsUpTo(n) ==
  IF n = 0 THEN {<<>>}
  ELSE SeqsUpTo(n - 1) \cup {Append(p, b) : p \in SeqsUpTo(n - 1), b \in Alphabet}

InitCodec ==
  /\ constructed
  /\ input \in SeqsUpTo(MaxLen)
  /\ output = <<>>

roundTrips ==
  /\ output = <<>>
  /\ output' = [encoded |-> cobsEncode(input),
                decoded |-> cobsDecode(cobsEncode(input))]
  /\ UNCHANGED <<controller, input>>

NextCodec == roundTrips

SpecCodec == InitCodec /\ [][NextCodec]_vars

\* C18: decode(encode(p)) = p for every byte sequence p up to the length
\* bound, the empty one and those holding the delimiter value included.
C18_RoundTrip ==
  output # <<>> => output.decoded = input

\* A payload holding the delimiter value twice has made the round trip
C18_Witness ==
  /\ output # <<>>
  /\ input = <<0, 163, 0>>
  /\ output.encoded = <<1, 2, 163, 1, 0>>
  /\ output.decoded = <<0, 163, 0>>

----------------------------------------------------------------------------
(* goToXY.  The distance and the angle to rotate by are computed from the   *)
(* positions and the heading before anything is written; the calls are      *)
(* drawn by these two values.  The async executor runs up to its first      *)
(* await inside the call, and each continuation is a step of its own.       *)
(* `ret` holds what the primitive called last has returned.                 *)

MaxPlans == 1
goToXYSpeed == 20

Plan(rotateAngle, distance, stage, awaits) ==
  [status |-> "pending", rotateAngle |-> rotateAngle, distance |-> distance,
   stage |-> stage, awaits |-> awaits]

\* What `await x` waits for when x is what the primitive returned: a promise
\* of the controller, or nothing when the call returned undefined
Awaits(r) == IF r.result = "promise" THEN r.h ELSE 0

\* Mutant: the continuation does not wait for the promise.
awaitedAtOnce(h) == TRUE

\* The continuation after `await` may run
awaited(h) == IF h = 0 THEN TRUE ELSE handles[h].status = "resolved"

\* The stage a plan is in after calling a primitive: a call that throws
\* rejects the promise of the async executor and leaves goToXY's pending.
Staged(stage, r) == IF r.result = "threw" THEN "failed" ELSE stage

goToXY(rotateAngle, distance) ==
  /\ Len(plans) < MaxPlans
  /\ IF rotateAngle # 0
       THEN /\ rotate(goToXYSpeed, rotateAngle)
            /\ plans' = Append(plans, Plan(rotateAngle, distance,
                                           Staged("rotate", ret'),
                                           Awaits(ret')))
       ELSE /\ forward(goToXYSpeed, distance)
            /\ plans' = Append(plans, Plan(rotateAngle, distance,
                                           Staged("forward", ret'),
                                           Awaits(ret')))
  /\ UNCHANGED <<input, output>>

\* After `await rotate(20, rotateAngle)`: forward is called
goToXYForwards(g) ==
  /\ plans[g].stage = "rotate"
  /\ awaited(plans[g].awaits)
  /\ forward(goToXYSpeed, plans[g].distance)
  /\ plans' = [plans EXCEPT ![g].stage = Staged("forward", ret'),
                            ![g].awaits = Awaits(ret')]
  /\ UNCHANGED <<input, output>>

\* After `await forward(20, distance)`: resolve()
goToXYResolves(g) ==
  /\ plans[g].stage = "forward"
  /\ awaited(plans[g].awaits)
  /\ plans' = [plans EXCEPT ![g].stage = "done", ![g].status = "resolved"]
  /\ UNCHANGED <<port, parser, ports, parsers, handles, timers, flushes,
                 nWrites, lastWrite, nPublished, lastPublished, ret, nEvents,
                 input, output>>

\* goToXY among the calls and events that meet it: init, the primitives it
\* is built from called by others, a call resolved by a timer, and the
\* events and timers that settle these.
NextGoToXY ==
  \/ init /\ Idle
  \/ (\E s \in Speeds, d \in Distances : forward(s, d)) /\ Idle
  \/ (\E s \in Speeds, a \in Angles : rotate(s, a)) /\ Idle
  \/ (\E hard \in HardFlags : stop(hard)) /\ Idle
  \/ (\E i \in 1..Len(timers) : timerFires(i)) /\ Idle
  \/ (\E p \in 1..Len(parsers) : parserReady(p)) /\ Idle
  \/ (\E p \in 1..Len(parsers) : parserTargetReached(p)) /\ Idle
  \/ \E a \in Angles, d \in Distances : goToXY(a, d)
  \/ \E g \in 1..Len(plans) : goToXYForwards(g)
  \/ \E g \in 1..Len(plans) : goToXYResolves(g)

SpecGoToXY == Init /\ [][NextGoToXY]_vars

\* The promise was resolved by a 'targetReached' event
ResolvedByTargetReached(h) ==
  /\ h \in 1..Len(handles)
  /\ handles[h].by = "targetReached"
  /\ handles[h].status = "resolved"
  /\ handles[h].fired >= 1

\* What a step does to the goToXY call g
Begins(g) == g > Len(plans)
MovesOn(g) == g <= Len(plans) /\ plans'[g].stage # plans[g].stage

\* C19: goToXY does not pipeline.  With a nonzero angle the call writes the
\* rotate frame and waits for rotate's promise; the forward frame is written
\* in a later step, when a 'targetReached' event has resolved that promise.
\* With the angle zero the call writes the forward frame and no rotate frame.
\* goToXY's promise is resolved in a step that writes nothing, when forward's
\* promise is resolved, or with nothing to wait for when the distance is 0,
\* and then the resolution needs no further event.
C19_GoToXYDoesNotPipeline ==
  /\ [](\A g \in 1..Len(plans) :
          /\ plans[g].status = "resolved" <=> plans[g].stage = "done"
          /\ plans[g].stage = "rotate" => plans[g].rotateAngle # 0
          /\ plans[g].stage = "forward" /\ plans[g].distance = 0
               => ENABLED goToXYResolves(g))
  /\ [][\A g \in 1..Len(plans') :
          /\ Begins(g) /\ port # 0 /\ plans'[g].rotateAngle # 0 =>
                /\ Writes(18)
                /\ plans'[g].stage = "rotate"
                /\ plans'[g].awaits = Len(handles')
                /\ handles'[Len(handles')].status = "pending"
          /\ Begins(g) /\ port # 0 /\ plans'[g].rotateAngle = 0 =>
                /\ Writes(16)
                /\ plans'[g].stage = "forward"
          /\ Begins(g) /\ port = 0 =>
                /\ nWrites' = nWrites
                /\ plans'[g].stage = "failed"
          /\ MovesOn(g) /\ plans[g].stage = "rotate" =>
                /\ ResolvedByTargetReached(plans[g].awaits)
                /\ Writes(16)
                /\ plans'[g].stage = "forward"
          /\ MovesOn(g) /\ plans[g].stage = "forward" =>
                /\ nWrites' = nWrites
                /\ plans'[g].stage = "done"
                /\ IF plans[g].distance = 0
                     THEN plans[g].awaits = 0
                     ELSE ResolvedByTargetReached(plans[g].awaits)
          /\ MovesOn(g) => plans[g].stage \in {"rotate", "forward"}
     ]_vars

\* A goToXY that rotated and drove has resolved
C19_Witness ==
  /\ plans # <<>>
  /\ plans[1].rotateAngle = 90 /\ plans[1].distance = 100
  /\ plans[1].status = "resolved"
  /\ nWrites = 2

----------------------------------------------------------------------------
(* Commands before init() *)

\* This step is a call that threw inside port.write: nothing is written, no
\* listener is attached and no timer is set.  A call whose write is made in
\* a promise's executor returns that promise, rejected.
FailsAtWrite ==
  /\ UNCHANGED <<port, parser, ports, parsers, timers, flushes, nWrites,
                 lastWrite, nPublished, lastPublished, nEvents>>
  /\ \/ handles' = handles /\ ret'.result = "threw"
     \/ /\ Len(handles') = Len(handles) + 1
        /\ SubSeq(handles', 1, Len(handles)) = handles
        /\ handles'[Len(handles')].status = "rejected"
        /\ ret'.h = Len(handles')

\* The promises of the calls that failed at the write
FailedCalls ==
  {h \in 1..Len(handles) :
     handles[h].by = "timer" /\ handles[h].status = "rejected"}

\* C20: a motion command called before init() fails at the write and leaves
\* the controller as it was: nothing written, no 'targetReached' listener
\* attached, no timer set.  Nothing that happens later (init(), events,
\* timers) settles a promise of the failed call: it has none, or a rejected
\* one that no listener and no timer refers to and that stays rejected.
C20_FailsAtWrite ==
  /\ [](\A h \in FailedCalls :
          /\ \A i \in 1..Len(timers) : timers[i].h # h
          /\ \A p \in 1..Len(parsers) : <<p, h>> \notin CompletionListeners)
  /\ [][/\ port = 0 =>
            /\ \A s \in Speeds, hd \in Headings, d \in Distances :
                  keepHeading(s, hd, d) => FailsAtWrite
            /\ \A s \in Speeds, d \in Distances :
                  forward(s, d) => FailsAtWrite
            /\ \A s \in Speeds, d \in Distances :
                  reverse(s, d) => FailsAtWrite
            /\ \A s \in Speeds, a \in Angles : rotate(s, a) => FailsAtWrite
            /\ \A s \in Speeds, a \in Angles, r \in Radii :
                  turn(s, a, r) => FailsAtWrite
            /\ \A l \in Speeds, r \in Speeds : drive(l, r) => FailsAtWrite
            /\ \A hard \in HardFlags : stop(hard) => FailsAtWrite
            /\ resetIMU => FailsAtWrite
        /\ \A h \in FailedCalls : handles'[h] = handles[h]
       ]_vars

\* stop() was called before init() and was rejected; init() was called since
\* and the parser has emitted 'targetReached'
C20_Witness ==
  /\ 1 \in FailedCalls
  /\ port # 0
  /\ lastPublished[1] = "targetReached"

====
